---- MODULE Spec2Model ----
(***************************************************************************)
(* Conway's Game of Life (conway.py): the neighbour counter, the           *)
(* generation step, the bounded iteration history and the generator        *)
(* run_conways_game together with the consumption loop of main() and its   *)
(* report of why the game stopped.                                         *)
(*                                                                         *)
(* A grid is a sequence of rows, a row a sequence of cells.  Python        *)
(* positions are zero-based (x the column, y the row); TLA+ sequences are  *)
(* one-based, so the cell at Point(x, y) is grid[y + 1][x + 1].            *)
(***************************************************************************)
EXTENDS Integers, Sequences, FiniteSets, TLC

ALIVE == "*"
DEAD == "-"
ITERATION_HISTORY_SIZE == 15
MAX_COPIES_IN_HISTORY == 4

\* Bounds of the inputs that are explored.
MaxRows == 3
MaxCols == 3
MaxPatternCells == 6
SmallIterations == 4
LargeIterations == 20

Min(a, b) == IF a < b THEN a ELSE b
Max(a, b) == IF a > b THEN a ELSE b

(***************************************************************************)
(* Inputs.                                                                 *)
(* SmallGrids: every rows x cols grid, 1 <= rows <= MaxRows and            *)
(* 1 <= cols <= MaxCols, whose living cells are among its first            *)
(* MaxPatternCells cells in row-major order (a pattern and dead padding).  *)
(* NamedGrids: larger patterns with a known course.                        *)
(* IterationsInputs: the values of the `iterations` argument.              *)
(***************************************************************************)
GridsOf(rows, cols) ==
    { [y \in 1..rows |-> [x \in 1..cols |->
          IF ((y - 1) * cols + x) \in S THEN ALIVE ELSE DEAD]] :
      S \in SUBSET (1..Min(rows * cols, MaxPatternCells)) }

SmallGrids == UNION { GridsOf(r, c) : r \in 1..MaxRows, c \in 1..MaxCols }

\* rows x cols grid whose living cells are the positions <<x, y>> of `live`
GridWith(rows, cols, live) ==
    [y \in 1..rows |-> [x \in 1..cols |->
        IF <<x - 1, y - 1>> \in live THEN ALIVE ELSE DEAD]]

\* 3x3, all alive: the centre has eight living neighbours
FullGrid == GridWith(3, 3, (0..2) \X (0..2))
\* 4x4 still life: a 2x2 block
BlockGrid == GridWith(4, 4, {<<1, 1>>, <<2, 1>>, <<1, 2>>, <<2, 2>>})
\* 5x5 period-2 oscillator: the horizontal blinker
BlinkerGrid == GridWith(5, 5, {<<1, 2>>, <<2, 2>>, <<3, 2>>})
\* 4x4 period-3 oscillator:  -**- / *--* / **** / ----
PeriodThreeGrid ==
    GridWith(4, 4, {<<1, 0>>, <<2, 0>>, <<0, 1>>, <<3, 1>>,
                    <<0, 2>>, <<1, 2>>, <<2, 2>>, <<3, 2>>})
\* 4x5, enters a period-4 cycle after 6 steps:  ---** / ***** / ----- / -----
PeriodFourGrid ==
    GridWith(4, 5, {<<3, 0>>, <<4, 0>>, <<0, 1>>, <<1, 1>>, <<2, 1>>,
                    <<3, 1>>, <<4, 1>>})
\* 5x5, settles only after 17 steps:  -*--- / ***-- / ----- / ----- / -----
LongTransientGrid ==
    GridWith(5, 5, {<<1, 0>>, <<0, 1>>, <<1, 1>>, <<2, 1>>})
\* 7x7, the pattern of test_cell_iterations_are_generated_using_conways_rules
TestPatternGrid ==
    GridWith(7, 7, {<<2, 2>>, <<3, 2>>, <<4, 2>>, <<3, 3>>,
                    <<2, 4>>, <<3, 4>>, <<4, 4>>})

NamedGrids == { FullGrid, BlockGrid, BlinkerGrid, PeriodThreeGrid,
                PeriodFourGrid, LongTransientGrid, TestPatternGrid }

InitialGrids == SmallGrids \cup NamedGrids

IterationsInputs == ((-1)..SmallIterations) \cup {LargeIterations}

(***************************************************************************)
(* Grid properties (Grid.__init__).                                        *)
(***************************************************************************)
grid_rows(cells) == Len(cells)
grid_cols(cells) == Len(cells[1])

(***************************************************************************)
(* count_neighbours / valid_loc                                            *)
(***************************************************************************)
Point(x, y) == [x |-> x, y |-> y]

\* Python list subscript: a negative index counts from the end of the list.
PyIndex(i, n) == IF i < 0 THEN n + i + 1 ELSE i + 1

\* grid[y][x]
cell_at(g, y, x) == g[PyIndex(y, Len(g))][PyIndex(x, Len(g[PyIndex(y, Len(g))]))]

\* valid_loc with the lower-bound tests left out: -1 would then be accepted
\* and the subscript would wrap around to the opposite edge.
valid_loc_no_lower_bound(g, location) ==
    IF ~(location.x < Len(g[1])) THEN FALSE
    ELSE IF ~(location.y < Len(g)) THEN FALSE
    ELSE TRUE

valid_loc(g, location) ==
    IF ~(0 <= location.x /\ location.x < Len(g[1])) THEN FALSE
    ELSE IF ~(0 <= location.y /\ location.y < Len(g)) THEN FALSE
    ELSE TRUE

\* top, right, bottom, left, top-left, top-right, bottom-right, bottom-left
neighbours(here) ==
    << Point(here.x, here.y - 1),
       Point(here.x + 1, here.y),
       Point(here.x, here.y + 1),
       Point(here.x - 1, here.y),
       Point(here.x - 1, here.y - 1),
       Point(here.x + 1, here.y - 1),
       Point(here.x + 1, here.y + 1),
       Point(here.x - 1, here.y + 1) >>

\* count_neighbours that would look at the first four neighbours only:
\* top, right, bottom and left.
count_neighbours_orthogonal(g, location) ==
    Cardinality({ neighbour \in { neighbours(location)[i] : i \in 1..4 } :
        valid_loc(g, neighbour) /\ cell_at(g, neighbour.y, neighbour.x) = ALIVE })

\* The loop of lines 145-147 adds one for every neighbour that is a valid
\* location and holds ALIVE (the subscript is evaluated only if valid).  The
\* eight neighbours are pairwise different, so the loop counts a set.
count_neighbours(g, location) ==
    Cardinality({ neighbour \in { neighbours(location)[i] : i \in 1..8 } :
        valid_loc(g, neighbour) /\ cell_at(g, neighbour.y, neighbour.x) = ALIVE })

(***************************************************************************)
(* get_next_iteration.  next_iter is a deep copy of the grid passed in;    *)
(* the loops over range(self.grid.rows) and range(self.grid.cols) write    *)
(* every cell (y, x) in that range from prev_iter, which is only read.     *)
(* A cell outside the range keeps the copied value; a range that exceeds   *)
(* the grid passed in ends in an IndexError at prev_iter[y][x].            *)
(***************************************************************************)
IndexError == << >>

\* the rule with survival on exactly two living neighbours only
next_cell_survival_on_two(prev_cell, living_neighbours) ==
    IF prev_cell = ALIVE /\ living_neighbours = 2 THEN ALIVE
    ELSE IF prev_cell = DEAD /\ living_neighbours = 3 THEN ALIVE
    ELSE DEAD

next_cell(prev_cell, living_neighbours) ==
    IF prev_cell = ALIVE /\ living_neighbours \in {2, 3} THEN ALIVE
    ELSE IF prev_cell = DEAD /\ living_neighbours = 3 THEN ALIVE
    ELSE DEAD

\* The loops when next_iter is not a copy but the very list that is read
\* (k = y * cols + x): cells updated earlier in the step are seen by the
\* later ones.
RECURSIVE in_place_loop(_, _, _, _)
in_place_loop(iter, rows, cols, k) ==
    IF k >= rows * cols THEN iter
    ELSE LET y == k \div cols
             x == k % cols
         IN  in_place_loop(
                 [iter EXCEPT ![y + 1][x + 1] =
                     next_cell(iter[y + 1][x + 1],
                               count_neighbours(iter, Point(x, y)))],
                 rows, cols, k + 1)

get_next_iteration_in_place(self_grid, g) ==
    IF grid_rows(self_grid) > Len(g) \/ grid_cols(self_grid) > Len(g[1])
    THEN IndexError
    ELSE in_place_loop(g, grid_rows(self_grid), grid_cols(self_grid), 0)

get_next_iteration(self_grid, g) ==
    IF grid_rows(self_grid) > Len(g) \/ grid_cols(self_grid) > Len(g[1])
    THEN IndexError
    ELSE [y \in 1..Len(g) |-> [x \in 1..Len(g[y]) |->
             IF y <= grid_rows(self_grid) /\ x <= grid_cols(self_grid)
             THEN next_cell(g[y][x], count_neighbours(g, Point(x - 1, y - 1)))
             ELSE g[y][x]]]

(***************************************************************************)
(* The iteration history: deque(maxlen=ITERATION_HISTORY_SIZE).            *)
(***************************************************************************)
deque_append_unbounded(d, item) == Append(d, item)

deque_append(d, item) ==
    IF Len(d) = ITERATION_HISTORY_SIZE THEN Append(Tail(d), item)
    ELSE Append(d, item)

deque_count(d, item) == Cardinality({ i \in 1..Len(d) : d[i] = item })

\* The count taken after the candidate has been put into the history.
repeat_count_after_append(history, candidate) ==
    deque_count(deque_append(history, candidate), candidate)

\* The count by object identity: a freshly derived list is no earlier object.
repeat_count_by_identity(history, candidate) == 0

\* self.iteration_history.count(next_iteration)
repeat_count(history, candidate) == deque_count(history, candidate)

\* range(iterations) running one time too many.
loop_continues_inclusive(count, n) == count <= n

\* for _ in range(iterations): is there another loop step?
loop_continues(count, n) == count < n

(***************************************************************************)
(* State: the game object (ConwaysGameOfLife.__init__), the frame of the   *)
(* generator run_conways_game, and the consumer in main().                 *)
(***************************************************************************)
VARIABLES
    grid,                 \* self._grid.cells, the initial generation
    iterations,           \* the `iterations` argument of run_conways_game
    iteration_history,    \* self._iteration_history
    total_iterations,     \* self._total_iterations
    repeated_pattern_halted_the_game,
    current_gen,          \* generator local current_gen (= next_iteration)
    loop_count,           \* loop steps of `for _ in range(iterations)` begun
    pc,                   \* where the generator is suspended
    emitted,              \* the grids yielded to the consumer, in order
    interrupted,          \* main() caught KeyboardInterrupt and left the loop
    reason,               \* which closing message main() has printed
    cell_pattern,         \* the cell_pattern argument of Grid(), as its lines
    heap                  \* the list objects behind the grids (see HeapSpec)

vars == << grid, iterations, iteration_history, total_iterations,
           repeated_pattern_halted_the_game, current_gen, loop_count, pc,
           emitted, interrupted, reason, cell_pattern, heap >>

\* Grid() does not keep its argument: once the Grid exists, nothing is
\* left of the pattern it was built from.
NoPattern == << >>

\* The specifications that treat a grid as a value keep no list objects.
NoObjects == [ rows |-> << >>, cells |-> << >>, current_gen |-> << >>,
               iteration_history |-> << >>, yielded |-> << >> ]

\* A game object on the Grid whose cells are `grid`; run_conways_game has
\* been called, next() not yet.
Init ==
    /\ grid \in InitialGrids
    /\ iterations \in IterationsInputs
    /\ iteration_history = << >>
    /\ total_iterations = 0
    /\ repeated_pattern_halted_the_game = FALSE
    /\ current_gen = grid
    /\ loop_count = 0
    /\ pc = "not_started"
    /\ emitted = << >>
    /\ interrupted = FALSE
    /\ reason = "none"
    /\ cell_pattern = NoPattern
    /\ heap = NoObjects

Suspended == pc \in {"first_yield", "loop_yield"}

\* A generator that would start over when pulled after it has returned.
StartRestartable ==
    /\ pc \in {"not_started", "returned"}
    /\ ~interrupted
    /\ current_gen' = grid
    /\ iteration_history' = deque_append(iteration_history, grid)
    /\ emitted' = Append(emitted, grid)
    /\ pc' = "first_yield"
    /\ UNCHANGED << grid, iterations, total_iterations,
                    repeated_pattern_halted_the_game, loop_count,
                    interrupted, reason, cell_pattern, heap >>

\* The first next() with the initial generation counted as an iteration.
StartCounted ==
    /\ pc = "not_started"
    /\ ~interrupted
    /\ current_gen' = grid
    /\ iteration_history' = deque_append(iteration_history, grid)
    /\ total_iterations' = total_iterations + 1
    /\ emitted' = Append(emitted, grid)
    /\ pc' = "first_yield"
    /\ UNCHANGED << grid, iterations, repeated_pattern_halted_the_game,
                    loop_count, interrupted, reason, cell_pattern, heap >>

\* The first next(): lines 185-190, up to the first yield.
Start ==
    /\ pc = "not_started"
    /\ ~interrupted
    /\ current_gen' = grid
    /\ iteration_history' = deque_append(iteration_history, grid)
    /\ emitted' = Append(emitted, grid)
    /\ pc' = "first_yield"
    /\ UNCHANGED << grid, iterations, total_iterations,
                    repeated_pattern_halted_the_game, loop_count,
                    interrupted, reason, cell_pattern, heap >>

\* Line 205 run twice: the generation yielded last is appended two times.
history_appended_twice_on_resume ==
    IF pc = "loop_yield"
    THEN deque_append(deque_append(iteration_history, current_gen), current_gen)
    ELSE iteration_history

\* A generator without line 205: nothing is appended on resuming.
history_not_appended_on_resume == iteration_history

\* Resuming after the yield inside the loop first runs line 205.
history_on_resume ==
    IF pc = "loop_yield" THEN deque_append(iteration_history, current_gen)
    ELSE iteration_history

\* A later next() with `self._total_iterations += 1` in front of the
\* repeat test instead of in its else branch.
ResumeCountedFirst ==
    /\ Suspended
    /\ ~interrupted
    /\ iteration_history' = history_on_resume
    /\ IF loop_continues(loop_count, iterations)
       THEN \E next_iteration \in {get_next_iteration(grid, current_gen)} :
                /\ current_gen' = next_iteration
                /\ loop_count' = loop_count + 1
                /\ total_iterations' = total_iterations + 1
                /\ IF repeat_count(history_on_resume, next_iteration)
                          = MAX_COPIES_IN_HISTORY
                   THEN /\ repeated_pattern_halted_the_game' = TRUE
                        /\ pc' = "returned"
                        /\ UNCHANGED emitted
                   ELSE /\ emitted' = Append(emitted, next_iteration)
                        /\ pc' = "loop_yield"
                        /\ UNCHANGED repeated_pattern_halted_the_game
       ELSE /\ pc' = "returned"
            /\ UNCHANGED << current_gen, loop_count, total_iterations,
                            repeated_pattern_halted_the_game, emitted >>
    /\ UNCHANGED << grid, iterations, interrupted, reason, cell_pattern,
                    heap >>

\* A later next(): the generator resumes after a yield (lines 192-205).
\* It appends the generation it yielded last (when that was a loop yield),
\* then either runs one more loop step - derive the candidate, halt on the
\* repeat threshold or count and yield it - or finds range(iterations)
\* used up and returns.
Resume ==
    /\ Suspended
    /\ ~interrupted
    /\ iteration_history' = history_on_resume
    /\ IF loop_continues(loop_count, iterations)
       THEN \E next_iteration \in {get_next_iteration(grid, current_gen)} :
                /\ current_gen' = next_iteration
                /\ loop_count' = loop_count + 1
                /\ IF repeat_count(history_on_resume, next_iteration)
                          = MAX_COPIES_IN_HISTORY
                   THEN /\ repeated_pattern_halted_the_game' = TRUE
                        /\ pc' = "returned"
                        /\ UNCHANGED << total_iterations, emitted >>
                   ELSE /\ total_iterations' = total_iterations + 1
                        /\ emitted' = Append(emitted, next_iteration)
                        /\ pc' = "loop_yield"
                        /\ UNCHANGED repeated_pattern_halted_the_game
       ELSE /\ pc' = "returned"
            /\ UNCHANGED << current_gen, loop_count, total_iterations,
                            repeated_pattern_halted_the_game, emitted >>
    /\ UNCHANGED << grid, iterations, interrupted, reason, cell_pattern,
                    heap >>

\* KeyboardInterrupt inside the body of main()'s for loop (lines 344-349):
\* the consumer holds an element and never pulls again.
KeyboardInterrupt ==
    /\ Suspended
    /\ ~interrupted
    /\ interrupted' = TRUE
    /\ UNCHANGED << grid, iterations, iteration_history, total_iterations,
                    repeated_pattern_halted_the_game, current_gen, loop_count,
                    pc, emitted, reason, cell_pattern, heap >>

\* The test behind main()'s closing message (lines 360-365).
halting_reason ==
    IF repeated_pattern_halted_the_game THEN "repeated-pattern"
    ELSE IF iterations = total_iterations THEN "iteration-limit"
    ELSE "external-interruption"

\* main() replaces an absent or zero --iterations by MAX_ITERATIONS (line
\* 313), so the `iterations` it passes on and compares here is never 0; a
\* run with iterations = 0 is one started by another caller, which prints
\* no closing message.
Report ==
    /\ pc = "returned" \/ interrupted
    /\ iterations # 0
    /\ reason = "none"
    /\ reason' = halting_reason
    /\ UNCHANGED << grid, iterations, iteration_history, total_iterations,
                    repeated_pattern_halted_the_game, current_gen, loop_count,
                    pc, emitted, interrupted, cell_pattern, heap >>

Pull == Start \/ Resume

Next ==
    \/ Start
    \/ Resume
    \/ KeyboardInterrupt
    \/ Report

Spec == Init /\ [][Next]_vars

\* main()'s for loop keeps pulling until the generator returns or the user
\* interrupts, and main() then prints its closing message.
FairSpec == Spec /\ WF_vars(Pull) /\ WF_vars(Report)

(***************************************************************************)
(* Grid construction (class Grid, lines 37-91).                            *)
(* A cell_pattern string is held as the sequence of its lines, each line   *)
(* the sequence of its characters, which is what splitlines() makes of it; *)
(* the empty string is the empty sequence of lines, and a string of one    *)
(* line break is one empty line.                                           *)
(***************************************************************************)
GRID_SIZE == 20

MaxLines == 2
MaxLineLength == 2
RandomSamples == 2

SPACE == " "

PatternLines ==
    UNION { [1..n -> {ALIVE, DEAD, SPACE}] : n \in 0..MaxLineLength }

SmallPatterns == UNION { [1..n -> PatternLines] : n \in 0..MaxLines }

\* the indented, ragged pattern of the construction test, blank first line
RaggedTestPattern ==
    << << >>,
       << SPACE, SPACE, SPACE, SPACE, "*", "-", "*", "-", "*" >>,
       << SPACE, SPACE, SPACE, SPACE, "-", "*", "*" >>,
       << SPACE, SPACE, SPACE, SPACE, "*", "-", "-" >>,
       << SPACE, SPACE, SPACE, SPACE, "-" >>,
       << SPACE, SPACE, SPACE, SPACE, "-", "*", "*" >>,
       << SPACE, SPACE, SPACE, SPACE >> >>

CellPatterns == SmallPatterns \cup {RaggedTestPattern}

\* max() of an empty list raises ValueError; no list of cells is returned
ValueError == << << "ValueError" >> >>

\* before Grid() has returned there is no list of cells
NoGrid == << >>

\* cell_pattern.replace(' ', ''), seen line by line
remove_spaces(line) == SelectSeq(line, LAMBDA c : c # SPACE)

raw_cells(pattern) ==
    [i \in 1..Len(pattern) |-> remove_spaces(pattern[i])]

compact_cells(raw) == SelectSeq(raw, LAMBDA row : row # << >>)

longest_row(cells) ==
    CHOOSE n \in { Len(cells[i]) : i \in 1..Len(cells) } :
        \A i \in 1..Len(cells) : Len(cells[i]) <= n

\* pad_cells that would put the dead cells in front of a short row
pad_cells_on_the_left(cells) ==
    IF cells = << >> THEN ValueError
    ELSE [i \in 1..Len(cells) |->
            [j \in 1..(longest_row(cells) - Len(cells[i])) |-> "-"]
                \o cells[i]]

pad_cells(cells) ==
    IF cells = << >> THEN ValueError
    ELSE [i \in 1..Len(cells) |->
            cells[i] \o
            [j \in 1..(longest_row(cells) - Len(cells[i])) |-> "-"]]

\* random.choices(['-', '*'], k=GRID_SIZE) for each of GRID_SIZE rows: any
\* grid of that size can come out.  The outcomes followed here are those
\* whose odd rows and whose even rows are each one of RandomSamples + 1
\* rows (all dead, all alive, every second cell alive, ...).
sample_row(m) ==
    [x \in 1..GRID_SIZE |-> IF m > 0 /\ x % m = 0 THEN ALIVE ELSE DEAD]

random_arrangement ==
    { [y \in 1..GRID_SIZE |-> IF y % 2 = 1 THEN sample_row(odd)
                               ELSE sample_row(even)] :
      odd \in 0..RandomSamples, even \in 0..RandomSamples }

\* the lists of cells a call can return (one, unless the grid is random)
cells_to_grid(pattern) ==
    IF pattern # << >>
    THEN { pad_cells(compact_cells(raw_cells(pattern))) }
    ELSE random_arrangement

ConstructionInit ==
    /\ cell_pattern \in CellPatterns
    /\ grid = NoGrid
    /\ current_gen = NoGrid
    /\ iterations = 0
    /\ iteration_history = << >>
    /\ total_iterations = 0
    /\ repeated_pattern_halted_the_game = FALSE
    /\ loop_count = 0
    /\ pc = "unconstructed"
    /\ emitted = << >>
    /\ interrupted = FALSE
    /\ reason = "none"
    /\ heap = NoObjects

\* Grid(cell_pattern), lines 40-43: the cells are built and become the
\* Grid's, or the exception of pad_cells ends the call without a Grid.
Grid_init ==
    /\ pc = "unconstructed"
    /\ \E cells \in cells_to_grid(cell_pattern) :
          IF cells = ValueError
          THEN /\ pc' = "ValueError"
               /\ UNCHANGED grid
          ELSE /\ grid' = cells
               /\ pc' = "constructed"
    /\ UNCHANGED << iterations, iteration_history, total_iterations,
                    repeated_pattern_halted_the_game, current_gen, loop_count,
                    emitted, interrupted, reason, cell_pattern, heap >>

ConstructionNext == Grid_init

ConstructionSpec == ConstructionInit /\ [][ConstructionNext]_vars

(***************************************************************************)
(* Runs from pattern fields: a horizontal blinker with two or more cells   *)
(* between its centre and every edge, and fields of 2x2 blocks that do not *)
(* touch one another (the three blocks of the still-life test among them). *)
(***************************************************************************)
MaxBlinkerFieldSize == 6
MaxBlockFieldRows == 4
MaxBlockFieldCols == 6
MaxBlocks == 2

HorizontalBlinker(cx, cy) == { <<cx - 1, cy>>, <<cx, cy>>, <<cx + 1, cy>> }
VerticalBlinker(cx, cy) == { <<cx, cy - 1>>, <<cx, cy>>, <<cx, cy + 1>> }

BlinkerFields ==
    UNION { { GridWith(r, c, HorizontalBlinker(cx, cy)) :
                cx \in 2..(c - 3), cy \in 2..(r - 3) } :
            r \in 5..MaxBlinkerFieldSize, c \in 5..MaxBlinkerFieldSize }

\* the 2x2 block whose top left cell is t
Block(t) == { <<t[1], t[2]>>, <<t[1] + 1, t[2]>>,
              <<t[1], t[2] + 1>>, <<t[1] + 1, t[2] + 1>> }

\* blocks at a and b with at least one row or column between them
Apart(a, b) ==
    \/ a[1] - b[1] >= 3 \/ b[1] - a[1] >= 3
    \/ a[2] - b[2] >= 3 \/ b[2] - a[2] >= 3

\* blocks at a and b with at least two rows or two columns between them
WellApart(a, b) ==
    \/ a[1] - b[1] >= 4 \/ b[1] - a[1] >= 4
    \/ a[2] - b[2] >= 4 \/ b[2] - a[2] >= 4

BlockFieldsOf(r, c) ==
    { GridWith(r, c, UNION { Block(f[i]) : i \in DOMAIN f }) :
        f \in { f \in UNION { [1..n -> (0..(c - 2)) \X (0..(r - 2))] :
                                n \in 0..MaxBlocks } :
                  \A i, j \in DOMAIN f : i = j \/ Apart(f[i], f[j]) } }

BlockFields ==
    UNION { BlockFieldsOf(r, c) :
            r \in 2..MaxBlockFieldRows, c \in 2..MaxBlockFieldCols }

\* the 7x15 grid of the still-life test
StillLifeTestGrid ==
    GridWith(7, 15, Block(<<3, 1>>) \cup Block(<<10, 1>>) \cup Block(<<7, 4>>))

PatternGrids == BlinkerFields \cup BlockFields \cup {StillLifeTestGrid}

PatternIterations == {0, SmallIterations, LargeIterations}

PatternInit ==
    /\ grid \in PatternGrids
    /\ iterations \in PatternIterations
    /\ iteration_history = << >>
    /\ total_iterations = 0
    /\ repeated_pattern_halted_the_game = FALSE
    /\ current_gen = grid
    /\ loop_count = 0
    /\ pc = "not_started"
    /\ emitted = << >>
    /\ interrupted = FALSE
    /\ reason = "none"
    /\ cell_pattern = NoPattern
    /\ heap = NoObjects

PatternSpec == PatternInit /\ [][Next]_vars

(***************************************************************************)
(* The run with its lists as objects (lines 161-205).  A grid is a list of *)
(* row lists.  heap.rows holds every row list there is, a row's identity   *)
(* being its index; a reference to a grid is the sequence of the           *)
(* identities of its rows (an outer list is never written to after it was  *)
(* built).  heap.cells is self._grid._cells, heap.current_gen the local    *)
(* current_gen, heap.iteration_history the deque, and heap.yielded the     *)
(* objects handed to the consumer - all of them references, so that a      *)
(* write to a row shows in every grid that shares the row.                 *)
(***************************************************************************)
deref(rows, ref) == [i \in 1..Len(ref) |-> rows[ref[i]]]

\* a "deep" copy that would hand back the row lists it was given
deepcopy_sharing_rows(rows, ref) == [ rows |-> rows, ref |-> ref ]

\* deepcopy(prev_iter): new row lists holding the same cells
deepcopy(rows, ref) ==
    [ rows |-> rows \o deref(rows, ref),
      ref  |-> [i \in 1..Len(ref) |-> Len(rows) + i] ]

\* get_next_iteration(grid) on objects: prev_iter = copy(grid) is a new
\* outer list of the rows of `grid`, next_iter = deepcopy(prev_iter), and
\* the loops write the cells they derive from prev_iter to the rows of
\* next_iter, which is returned.
get_next_iteration_of_objects(rows, self_cells, ref) ==
    LET next_iter == deepcopy(rows, ref)
        derived == get_next_iteration(deref(rows, self_cells), deref(rows, ref))
    IN  [ rows |-> [id \in 1..Len(next_iter.rows) |->
                       IF \E y \in 1..Len(next_iter.ref) : next_iter.ref[y] = id
                       THEN derived[CHOOSE y \in 1..Len(next_iter.ref) :
                                        next_iter.ref[y] = id]
                       ELSE next_iter.rows[id]],
          ref  |-> next_iter.ref ]

HeapInit ==
    /\ grid \in InitialGrids
    /\ iterations \in IterationsInputs
    /\ iteration_history = << >>
    /\ total_iterations = 0
    /\ repeated_pattern_halted_the_game = FALSE
    /\ current_gen = grid
    /\ loop_count = 0
    /\ pc = "not_started"
    /\ emitted = << >>
    /\ interrupted = FALSE
    /\ reason = "none"
    /\ cell_pattern = NoPattern
    /\ heap = [ rows |-> grid,
                cells |-> [i \in 1..Len(grid) |-> i],
                current_gen |-> << >>,
                iteration_history |-> << >>,
                yielded |-> << >> ]

\* The first next(), lines 185-190: current_gen, the first history entry
\* and the first element yielded are all the Grid's own list of cells.
HeapStart ==
    /\ pc = "not_started"
    /\ heap' = [heap EXCEPT
                  !.current_gen = heap.cells,
                  !.iteration_history = deque_append(@, heap.cells),
                  !.yielded = Append(@, heap.cells)]
    /\ pc' = "first_yield"
    /\ UNCHANGED << grid, iterations, iteration_history, total_iterations,
                    repeated_pattern_halted_the_game, current_gen, loop_count,
                    emitted, interrupted, reason, cell_pattern >>

\* A later next(), lines 192-205; deque.count compares the lists by the
\* cells they hold at that moment.
HeapResume ==
    /\ Suspended
    /\ LET history == IF pc = "loop_yield"
                      THEN deque_append(heap.iteration_history, heap.current_gen)
                      ELSE heap.iteration_history
       IN  IF loop_continues(loop_count, iterations)
           THEN \E next \in {get_next_iteration_of_objects(
                                 heap.rows, heap.cells, heap.current_gen)} :
                    /\ loop_count' = loop_count + 1
                    /\ IF repeat_count(
                              [i \in 1..Len(history) |-> deref(next.rows, history[i])],
                              deref(next.rows, next.ref)) = MAX_COPIES_IN_HISTORY
                       THEN /\ repeated_pattern_halted_the_game' = TRUE
                            /\ pc' = "returned"
                            /\ heap' = [heap EXCEPT
                                          !.rows = next.rows,
                                          !.current_gen = next.ref,
                                          !.iteration_history = history]
                            /\ UNCHANGED total_iterations
                       ELSE /\ total_iterations' = total_iterations + 1
                            /\ pc' = "loop_yield"
                            /\ heap' = [heap EXCEPT
                                          !.rows = next.rows,
                                          !.current_gen = next.ref,
                                          !.iteration_history = history,
                                          !.yielded = Append(@, next.ref)]
                            /\ UNCHANGED repeated_pattern_halted_the_game
           ELSE /\ pc' = "returned"
                /\ heap' = [heap EXCEPT !.iteration_history = history]
                /\ UNCHANGED << loop_count, total_iterations,
                                repeated_pattern_halted_the_game >>
    /\ UNCHANGED << grid, iterations, iteration_history, current_gen,
                    emitted, interrupted, reason, cell_pattern >>

HeapNext == HeapStart \/ HeapResume

HeapSpec == HeapInit /\ [][HeapNext]_vars

(***************************************************************************)
(* get_next_iteration called from outside the generator, as a method of a  *)
(* game object, with a grid of the caller's choosing: `grid` is the game's *)
(* own grid, current_gen the grid the caller passes, which the caller      *)
(* replaces by the result to pass it again.                                *)
(***************************************************************************)
MaxDirectCalls == 2

\* the games' own grids: all dead or all alive, of every small shape
InstanceGrids ==
    UNION { { GridWith(r, c, {}), GridWith(r, c, (0..(c - 1)) \X (0..(r - 1))) } :
            r \in 1..MaxRows, c \in 1..MaxCols }

DirectInit ==
    /\ grid \in InstanceGrids
    /\ current_gen \in SmallGrids
    /\ iterations = 0
    /\ iteration_history = << >>
    /\ total_iterations = 0
    /\ repeated_pattern_halted_the_game = FALSE
    /\ loop_count = 0
    /\ pc = "direct_call"
    /\ emitted = << >>
    /\ interrupted = FALSE
    /\ reason = "none"
    /\ cell_pattern = NoPattern
    /\ heap = NoObjects

\* game.get_next_iteration(current_gen): the result, or the IndexError
\* that ends the call.
DirectCall ==
    /\ pc = "direct_call"
    /\ loop_count < MaxDirectCalls
    /\ loop_count' = loop_count + 1
    /\ \E next_iteration \in {get_next_iteration(grid, current_gen)} :
          IF next_iteration = IndexError
          THEN /\ pc' = "IndexError"
               /\ UNCHANGED current_gen
          ELSE /\ current_gen' = next_iteration
               /\ UNCHANGED pc
    /\ UNCHANGED << grid, iterations, iteration_history, total_iterations,
                    repeated_pattern_halted_the_game, emitted, interrupted,
                    reason, cell_pattern, heap >>

DirectNext == DirectCall

DirectSpec == DirectInit /\ [][DirectNext]_vars

(***************************************************************************)
(* One game object, run more than once: run_conways_game is called again   *)
(* after the generator of the call before has returned or its consumer has *)
(* stopped pulling.  The generator's locals are new; the history, the      *)
(* counter and the flag are fields of the game, assigned in __init__ only  *)
(* (lines 101-105).  A call is made as long as the history holds at most   *)
(* MaxRerunHistory snapshots.                                              *)
(***************************************************************************)
MaxRerunHistory == 4

RerunGrids == NamedGrids \cup GridsOf(2, 2)

RerunIterations == {1, SmallIterations}

RerunInit ==
    /\ grid \in RerunGrids
    /\ iterations \in RerunIterations
    /\ iteration_history = << >>
    /\ total_iterations = 0
    /\ repeated_pattern_halted_the_game = FALSE
    /\ current_gen = grid
    /\ loop_count = 0
    /\ pc = "not_started"
    /\ emitted = << >>
    /\ interrupted = FALSE
    /\ reason = "none"
    /\ cell_pattern = NoPattern
    /\ heap = NoObjects

\* game.run_conways_game(iterations) once more: a generator that has not
\* started, for a consumer that has received nothing yet.
CallAgain ==
    /\ pc = "returned" \/ interrupted
    /\ Len(iteration_history) <= MaxRerunHistory
    /\ iterations' \in RerunIterations
    /\ current_gen' = grid
    /\ loop_count' = 0
    /\ pc' = "not_started"
    /\ emitted' = << >>
    /\ interrupted' = FALSE
    /\ reason' = "none"
    /\ UNCHANGED << grid, iteration_history, total_iterations,
                    repeated_pattern_halted_the_game, cell_pattern, heap >>

RerunNext ==
    \/ Start
    \/ Resume
    \/ KeyboardInterrupt
    \/ Report
    \/ CallAgain

RerunSpec == RerunInit /\ [][RerunNext]_vars

(***************************************************************************)
(* What the claims refer to, stated without the program's operators:       *)
(* the Moore neighbourhood, the B3/S23 successor of a grid, and the        *)
(* history window and repeat count that belong to an emitted sequence.     *)
(***************************************************************************)
Positions(G) == (0..(Len(G[1]) - 1)) \X (0..(Len(G) - 1))

MooreOffsets == ((-1..1) \X (-1..1)) \ {<<0, 0>>}

\* the living Moore neighbours of <<x, y>> that lie inside G
LivingMooreNeighbours(G, x, y) ==
    { d \in MooreOffsets :
        /\ x + d[1] >= 0 /\ x + d[1] < Len(G[1])
        /\ y + d[2] >= 0 /\ y + d[2] < Len(G)
        /\ G[y + d[2] + 1][x + d[1] + 1] = ALIVE }

Successor(G) ==
    [y \in 1..Len(G) |-> [x \in 1..Len(G[1]) |->
        LET n == Cardinality(LivingMooreNeighbours(G, x - 1, y - 1))
        IN  IF \/ G[y][x] = ALIVE /\ n \in {2, 3}
               \/ G[y][x] = DEAD /\ n = 3
            THEN ALIVE ELSE DEAD]]

Rectangular(G) ==
    /\ Len(G) >= 1
    /\ \A y \in 1..Len(G) : Len(G[y]) = Len(G[1]) /\ Len(G[1]) >= 1

Last(seq) == seq[Len(seq)]

\* The generations g_0 .. g_(k-1) are the first k elements of E.  The history
\* that the candidate g_k meets: the latest ITERATION_HISTORY_SIZE of them.
HistoryWindow(E, k) == SubSeq(E, Max(0, k - ITERATION_HISTORY_SIZE) + 1, k)

\* how often the successor of g_(k-1) occurs in that window
CandidateCopies(E, k) ==
    Cardinality({ i \in (Max(0, k - ITERATION_HISTORY_SIZE) + 1)..k :
                    E[i] = Successor(E[k]) })

(***************************************************************************)
(* C1: every emitted generation after the first is the synchronous B3/S23  *)
(* successor of the one emitted before it: same number of rows and         *)
(* columns, and every cell decided by the old cell and the old grid's      *)
(* neighbour count only.                                                   *)
(***************************************************************************)
C1_EmittedIsSynchronousSuccessor ==
    \A k \in 1..(Len(emitted) - 1) :
        /\ Len(emitted[k + 1]) = Len(emitted[k])
        /\ \A y \in 1..Len(emitted[k]) :
               Len(emitted[k + 1][y]) = Len(emitted[k][y])
        /\ emitted[k + 1] = Successor(emitted[k])

\* a step in which a cell changes while an earlier cell of the scan changes
\* too: the blinker turning from horizontal to vertical
C1_Witness ==
    /\ Len(emitted) >= 2
    /\ emitted[1] = BlinkerGrid
    /\ emitted[2] # emitted[1]
    /\ emitted[2] = Successor(emitted[1])

(***************************************************************************)
(* C2: for the current generation G (any grid the run derives or starts    *)
(* from) and every position p inside G, count_neighbours(G, p) is in 0..8  *)
(* and is the number of Moore neighbours of p inside G that are alive; no  *)
(* wraparound, and p itself is not counted.                                *)
(***************************************************************************)
C2_CountIsMooreCount ==
    /\ Rectangular(current_gen)
    /\ \A p \in Positions(current_gen) :
        LET counted == count_neighbours(current_gen, Point(p[1], p[2]))
        IN  /\ counted \in 0..8
            /\ counted
                 = Cardinality(LivingMooreNeighbours(current_gen, p[1], p[2]))

\* the full 3x3 grid: eight living neighbours in the centre, three in a
\* corner whose wrapped-around neighbours would all be alive
C2_Witness ==
    /\ current_gen = FullGrid
    /\ pc = "first_yield"
    /\ count_neighbours(current_gen, Point(1, 1)) = 8
    /\ count_neighbours(current_gen, Point(0, 0)) = 3

(***************************************************************************)
(* C3: in every loop step the copies of the candidate are counted in the   *)
(* history as it is before the candidate is appended; exactly when that    *)
(* count is MAX_COPIES_IN_HISTORY the run halts with the repeated-pattern  *)
(* flag, and then the candidate is not emitted, not appended to the        *)
(* history and not counted in total_iterations; once the flag is set       *)
(* nothing more is emitted, appended or counted.                           *)
(***************************************************************************)
\* a next() on the suspended generator that runs loop step Len(emitted)
LoopStepTaken ==
    /\ Suspended
    /\ emitted' # emitted \/ pc' = "returned"
    /\ Len(emitted) <= iterations

C3_RepeatHaltRejectsCandidate ==
    [][ /\ LoopStepTaken =>
            /\ repeated_pattern_halted_the_game'
                 <=> (CandidateCopies(emitted, Len(emitted))
                        = MAX_COPIES_IN_HISTORY)
            /\ repeated_pattern_halted_the_game' =>
                 /\ pc' = "returned"
                 /\ emitted' = emitted
                 /\ total_iterations' = total_iterations
                 /\ iteration_history'
                      = HistoryWindow(emitted, Len(emitted))
        /\ repeated_pattern_halted_the_game =>
            /\ repeated_pattern_halted_the_game'
            /\ pc' = "returned"
            /\ emitted' = emitted
            /\ total_iterations' = total_iterations
            /\ iteration_history' = iteration_history ]_vars

\* a halted run: the rejected candidate is in the history four times, and
\* the history holds the emitted generations only
C3_Witness ==
    /\ repeated_pattern_halted_the_game
    /\ pc = "returned"
    /\ reason = "repeated-pattern"
    /\ deque_count(iteration_history, current_gen) = MAX_COPIES_IN_HISTORY
    /\ iteration_history = emitted
    /\ current_gen # Last(emitted)

(***************************************************************************)
(* C4: with maxIterations = N >= 0, if in none of the N loop steps the     *)
(* candidate has MAX_COPIES_IN_HISTORY copies in the history, a consumer   *)
(* that pulls to exhaustion has received exactly N + 1 grids,              *)
(* total_iterations is N, the repeated-pattern flag is false and the       *)
(* reported reason is iteration-limit.                                     *)
(***************************************************************************)
NoCandidateRepeats ==
    \A k \in 1..Min(Len(emitted), iterations) :
        CandidateCopies(emitted, k) # MAX_COPIES_IN_HISTORY

C4_IterationCap ==
    (pc = "returned" /\ iterations >= 0 /\ NoCandidateRepeats) =>
        /\ Len(emitted) = iterations + 1
        /\ total_iterations = iterations
        /\ ~repeated_pattern_halted_the_game
        /\ halting_reason = "iteration-limit"
        /\ reason \in {"none", "iteration-limit"}

\* a run of LargeIterations steps that never met the threshold
C4_Witness ==
    /\ pc = "returned"
    /\ iterations = LargeIterations
    /\ NoCandidateRepeats
    /\ Len(emitted) = iterations + 1
    /\ reason = "iteration-limit"

(***************************************************************************)
(* C5: started from a still life or an oscillator of period at most        *)
(* ITERATION_HISTORY_SIZE \div MAX_COPIES_IN_HISTORY, with maxIterations   *)
(* greater than ITERATION_HISTORY_SIZE + MAX_COPIES_IN_HISTORY, a run that *)
(* is pulled on eventually halts with the repeated-pattern flag, having    *)
(* yielded total_iterations + 1 grids, fewer than maxIterations + 1.       *)
(***************************************************************************)
RECURSIVE SuccessorN(_, _)
SuccessorN(G, n) == IF n = 0 THEN G ELSE SuccessorN(Successor(G), n - 1)

LowPeriod(G) ==
    \E p \in 1..(ITERATION_HISTORY_SIZE \div MAX_COPIES_IN_HISTORY) :
        SuccessorN(G, p) = G

HaltedByRepeat ==
    /\ pc = "returned"
    /\ repeated_pattern_halted_the_game
    /\ Len(emitted) = total_iterations + 1
    /\ Len(emitted) < iterations + 1

\* grid and iterations never change, so the premise is put inside <>
C5_LowPeriodRunHalts ==
    <>( \/ iterations <= ITERATION_HISTORY_SIZE + MAX_COPIES_IN_HISTORY
        \/ interrupted
        \/ HaltedByRepeat
        \/ ~LowPeriod(grid) )

\* the blinker, run with the large cap, halted by its repeat
C5_Witness ==
    /\ grid = BlinkerGrid
    /\ LowPeriod(grid)
    /\ Successor(grid) # grid
    /\ iterations > ITERATION_HISTORY_SIZE + MAX_COPIES_IN_HISTORY
    /\ HaltedByRepeat

(***************************************************************************)
(* C6: whenever the consumer stops pulling before the sequence is          *)
(* exhausted, after any emitted element, the run is reported as            *)
(* external-interruption and never as one of the other two reasons.        *)
(***************************************************************************)
C6_InterruptionIsReported ==
    (interrupted /\ reason # "none") => reason = "external-interruption"

(***************************************************************************)
(* C7: repeated-pattern takes precedence over the iteration cap.  A loop   *)
(* step k <= maxIterations whose candidate reaches the threshold ends the  *)
(* run with repeated-pattern, also for k = maxIterations; and whenever the *)
(* flag is set, total_iterations is strictly less than maxIterations, so   *)
(* the run is never classified as iteration-limit as well.                 *)
(***************************************************************************)
C7_RepeatBeforeCap ==
    /\ repeated_pattern_halted_the_game => total_iterations < iterations
    /\ (/\ pc = "returned"
        /\ Len(emitted) <= iterations
        /\ CandidateCopies(emitted, Len(emitted)) = MAX_COPIES_IN_HISTORY)
          => /\ repeated_pattern_halted_the_game
             /\ reason \in {"none", "repeated-pattern"}
    /\ reason = "iteration-limit" =>
          /\ ~repeated_pattern_halted_the_game
          /\ total_iterations = iterations

\* the threshold is reached in the very last loop step the cap allows
C7_Witness ==
    /\ repeated_pattern_halted_the_game
    /\ Len(emitted) = iterations
    /\ total_iterations = iterations - 1
    /\ reason = "repeated-pattern"

(***************************************************************************)
(* C8: the first element produced is the initial grid, produced while      *)
(* total_iterations is 0; and whenever elements have been emitted,         *)
(* total_iterations is their number minus one.                             *)
(***************************************************************************)
C8_CounterIsEmittedMinusOne ==
    /\ pc = "not_started" => (emitted = << >> /\ total_iterations = 0)
    /\ pc = "first_yield" => (emitted = << grid >> /\ total_iterations = 0)
    /\ Len(emitted) >= 1 =>
          /\ emitted[1] = grid
          /\ total_iterations = Len(emitted) - 1

\* after derived generations were emitted and a candidate was rejected
C8_Witness ==
    /\ repeated_pattern_halted_the_game
    /\ Len(emitted) >= 4
    /\ total_iterations = Len(emitted) - 1
    /\ loop_count = total_iterations + 1

(***************************************************************************)
(* C9: the history never holds more than ITERATION_HISTORY_SIZE snapshots; *)
(* when the first element is produced it holds the initial generation      *)
(* only, and while the consumer holds emitted generation g_k (k >= 1) it   *)
(* is exactly g_max(0, k - 15) .. g_(k - 1).                               *)
(***************************************************************************)
C9_HistoryIsRecentWindow ==
    /\ Len(iteration_history) <= ITERATION_HISTORY_SIZE
    /\ pc = "first_yield" => iteration_history = << grid >>
    /\ pc = "loop_yield" =>
          iteration_history = HistoryWindow(emitted, Len(emitted) - 1)

\* the consumer holds g_k with k >= 17: g_0 and g_1 have been evicted
C9_Witness ==
    /\ pc = "loop_yield"
    /\ Len(emitted) >= 18
    /\ Len(iteration_history) = ITERATION_HISTORY_SIZE
    /\ iteration_history[1] = emitted[Len(emitted) - ITERATION_HISTORY_SIZE]
    /\ iteration_history[1] # emitted[1]

(***************************************************************************)
(* C10: for every integer maxIterations, also 0 and negative ones, a run   *)
(* pulled to exhaustion whose loop completed without a repeat halt is      *)
(* reported as iteration-limit, never as external-interruption.            *)
(***************************************************************************)
C10_ExhaustedRunIsIterationLimit ==
    (/\ pc = "returned"
     /\ ~interrupted
     /\ ~repeated_pattern_halted_the_game
     /\ reason # "none") => reason = "iteration-limit"

(***************************************************************************)
(* C11: every run is finite.  With iterations = N >= 0 a consumer that     *)
(* keeps pulling (and is not interrupted) reaches the end of the sequence, *)
(* it has received at most N + 1 elements, and once the generator has      *)
(* returned it stays returned and yields nothing more.                     *)
(***************************************************************************)
C11_RunIsFinite ==
    /\ <>(pc = "returned" \/ interrupted)
    /\ [](iterations >= 0 => Len(emitted) <= iterations + 1)
    /\ [][pc = "returned" => pc' = "returned" /\ emitted' = emitted]_vars

C11_Witness ==
    /\ pc = "returned"
    /\ ~interrupted
    /\ iterations = SmallIterations
    /\ Len(emitted) = iterations + 1
    /\ ~repeated_pattern_halted_the_game
    /\ reason # "none"

\* the cells of a pattern line: its characters other than spaces, in order
RECURSIVE WithoutSpaces(_)
WithoutSpaces(line) ==
    IF line = << >> THEN << >>
    ELSE IF Head(line) = SPACE THEN WithoutSpaces(Tail(line))
    ELSE << Head(line) >> \o WithoutSpaces(Tail(line))

\* the rows of a pattern: its lines that have a cell, in order
RECURSIVE PatternRows(_)
PatternRows(P) ==
    IF P = << >> THEN << >>
    ELSE IF WithoutSpaces(Head(P)) = << >> THEN PatternRows(Tail(P))
    ELSE << WithoutSpaces(Head(P)) >> \o PatternRows(Tail(P))

IsLongestLength(R, w) ==
    /\ \E i \in 1..Len(R) : Len(R[i]) = w
    /\ \A i \in 1..Len(R) : Len(R[i]) <= w

(***************************************************************************)
(* C12: a Grid constructed from a pattern has one row per non-empty row of *)
(* the pattern, every row as long as the pattern's longest row; each row   *)
(* starts with the pattern row's cells in order and continues with dead    *)
(* cells only, so a row of full length is the pattern's row unchanged.     *)
(***************************************************************************)
C12_RaggedRowsArePadded ==
    (pc = "constructed" /\ cell_pattern # << >>) =>
        LET R == PatternRows(cell_pattern)
        IN  /\ Rectangular(grid)
            /\ Len(grid) = Len(R)
            /\ IsLongestLength(R, Len(grid[1]))
            /\ \A i \in 1..Len(R) :
                  /\ SubSeq(grid[i], 1, Len(R[i])) = R[i]
                  /\ \A j \in (Len(R[i]) + 1)..Len(grid[i]) : grid[i][j] = DEAD

C12_Witness ==
    /\ pc = "constructed"
    /\ cell_pattern = RaggedTestPattern
    /\ grid = << << "*", "-", "*", "-", "*" >>,
                 << "-", "*", "*", "-", "-" >>,
                 << "*", "-", "-", "-", "-" >>,
                 << "-", "-", "-", "-", "-" >>,
                 << "-", "*", "*", "-", "-" >> >>

(***************************************************************************)
(* C13: when Grid() is given a pattern without any row - the empty         *)
(* pattern, or one of spaces and blank lines only - the call ends with an  *)
(* error and no cells have been built.                                     *)
(***************************************************************************)
C13_ZeroRowsIsConstructionError ==
    (pc # "unconstructed" /\ PatternRows(cell_pattern) = << >>) =>
        (pc = "ValueError" /\ grid = NoGrid)

\* G is all dead but for a horizontal blinker centred on <<cx, cy>>, which
\* has two or more cells between it and every edge of G
IsBlinkerField(G, cx, cy) ==
    /\ Len(G) >= 5 /\ Len(G[1]) >= 5
    /\ cx >= 2 /\ cx <= Len(G[1]) - 3
    /\ cy >= 2 /\ cy <= Len(G) - 3
    /\ \A p \in Positions(G) :
          G[p[2] + 1][p[1] + 1] = ALIVE <=> p \in HorizontalBlinker(cx, cy)

(***************************************************************************)
(* C14: a horizontal blinker centred in an otherwise dead grid of 5x5 or   *)
(* more has period 2: its successor is the vertical blinker through the    *)
(* same centre, the successor of that is the horizontal grid again, and    *)
(* the two grids differ.  Seen on the run from such a grid: the second     *)
(* emitted grid is the vertical one, the third the initial one.            *)
(***************************************************************************)
C14_BlinkerHasPeriodTwo ==
    \A p \in Positions(grid) :
        IsBlinkerField(grid, p[1], p[2]) =>
            LET vertical ==
                    GridWith(Len(grid), Len(grid[1]), VerticalBlinker(p[1], p[2]))
            IN  /\ vertical # grid
                /\ get_next_iteration(grid, grid) = vertical
                /\ get_next_iteration(grid, vertical) = grid
                /\ Len(emitted) >= 2 => emitted[2] = vertical
                /\ Len(emitted) >= 3 => emitted[3] = grid

C14_Witness ==
    /\ IsBlinkerField(grid, 3, 2)
    /\ Len(grid) = 6 /\ Len(grid[1]) = 6
    /\ Len(emitted) >= 3
    /\ emitted[2] = GridWith(6, 6, VerticalBlinker(3, 2))
    /\ emitted[3] = emitted[1]

\* the top left cells of the 2x2 blocks of living cells in G
BlockCorners(G) ==
    { t \in Positions(G) :
        /\ t[1] + 1 < Len(G[1]) /\ t[2] + 1 < Len(G)
        /\ \A q \in Block(t) : G[q[2] + 1][q[1] + 1] = ALIVE }

\* every living cell of G lies in a 2x2 block, and no two blocks overlap
\* or touch, so that every block is surrounded by dead cells
IsBlockField(G) ==
    /\ \A p \in Positions(G) :
          G[p[2] + 1][p[1] + 1] = ALIVE =>
              \E t \in BlockCorners(G) : p \in Block(t)
    /\ \A a, b \in BlockCorners(G) : a = b \/ Apart(a, b)

\* a block field in which no dead cell is next to two blocks
IsSeparatedBlockField(G) ==
    /\ IsBlockField(G)
    /\ \A a, b \in BlockCorners(G) : a = b \/ WellApart(a, b)

C16_ExistingGridsKeepTheirCells ==
    /\ [](deref(heap.rows, heap.cells) = grid)
    /\ [][ /\ deref(heap'.rows, heap.cells) = deref(heap.rows, heap.cells)
           /\ deref(heap'.rows, heap.current_gen)
                  = deref(heap.rows, heap.current_gen)
           /\ \A i \in 1..Len(heap.iteration_history) :
                  deref(heap'.rows, heap.iteration_history[i])
                      = deref(heap.rows, heap.iteration_history[i])
           /\ \A k \in 1..Len(heap.yielded) :
                  deref(heap'.rows, heap.yielded[k])
                      = deref(heap.rows, heap.yielded[k]) ]_vars

C16_Witness ==
    /\ grid = BlinkerGrid
    /\ Len(heap.yielded) = 3
    /\ heap.yielded[1] = heap.cells
    /\ heap.yielded[3] # heap.cells
    /\ deref(heap.rows, heap.yielded[3]) = grid
    /\ deref(heap.rows, heap.yielded[2]) # grid
    /\ Len(heap.rows) = 3 * Len(grid)
    /\ Len(heap.iteration_history) = 2

(***************************************************************************)
(* C17: whatever the game's own grid is, a call of get_next_iteration with *)
(* a rectangular grid G returns the B3/S23 successor of G, a grid of G's   *)
(* rows and columns - also when G has other dimensions than the game's     *)
(* own grid.                                                               *)
(***************************************************************************)
C17_StepDependsOnArgumentOnly ==
    [][ (pc = "direct_call" /\ Rectangular(current_gen)) =>
            /\ pc' = "direct_call"
            /\ Len(current_gen') = Len(current_gen)
            /\ Len(current_gen'[1]) = Len(current_gen[1])
            /\ current_gen' = Successor(current_gen) ]_vars

(***************************************************************************)
(* C18: whenever a call of run_conways_game has produced its first element *)
(* and nothing more, the history holds the initial generation and nothing  *)
(* else, total_iterations is 0 and the repeated-pattern flag is false -    *)
(* for the first call on a game object and for every later one.            *)
(***************************************************************************)
C18_EveryCallStartsFresh ==
    pc = "first_yield" =>
        /\ iteration_history = << grid >>
        /\ total_iterations = 0
        /\ ~repeated_pattern_halted_the_game

(***************************************************************************)
(* The course of a grid under the B3/S23 successor: where its sequence of  *)
(* generations g_0, g_1, ... first comes back to an earlier generation.    *)
(* Cycle(G) is [m, p] with g_m the first generation of the cycle and p the *)
(* cycle's minimal period, looked for among the first MaxOrbit             *)
(* generations; p = 0 says that no generation recurs among them.           *)
(***************************************************************************)
MaxOrbit == 24

RECURSIVE CycleOf(_)
CycleOf(orbit) ==
    LET next == Successor(Last(orbit))
    IN  IF \E j \in 1..Len(orbit) : orbit[j] = next
        THEN LET j == CHOOSE j \in 1..Len(orbit) : orbit[j] = next
             IN  [m |-> j - 1, p |-> Len(orbit) + 1 - j]
        ELSE IF Len(orbit) >= MaxOrbit THEN [m |-> 0, p |-> 0]
        ELSE CycleOf(Append(orbit, next))

Cycle(G) == CycleOf(<< G >>)

(***************************************************************************)
(* C19: when the generations of the initial grid enter a cycle of minimal  *)
(* period p <= 3 at generation m and iterations >= m + 4p, the run ends in *)
(* loop step m + 4p with the repeated-pattern flag set, total_iterations   *)
(* = m + 4p - 1 and m + 4p grids emitted.                                  *)
(***************************************************************************)
C19_RepeatHaltStep ==
    (pc = "returned" /\ iterations >= MAX_COPIES_IN_HISTORY) =>
        LET c == Cycle(grid)
        IN  (c.p \in 1..3 /\ iterations >= c.m + 4 * c.p) =>
                /\ repeated_pattern_halted_the_game
                /\ loop_count = c.m + 4 * c.p
                /\ total_iterations = c.m + 4 * c.p - 1
                /\ Len(emitted) = c.m + 4 * c.p

C19_Witness ==
    /\ pc = "returned"
    /\ grid = TestPatternGrid
    /\ Cycle(grid) = [m |-> 6, p |-> 1]
    /\ iterations = LargeIterations
    /\ repeated_pattern_halted_the_game
    /\ loop_count = 10
    /\ total_iterations = 9
    /\ Len(emitted) = 10

Copies(seq, G) == Cardinality({ i \in 1..Len(seq) : seq[i] = G })

(***************************************************************************)
(* C21: in a run on a newly made game no grid occurs more than             *)
(* MAX_COPIES_IN_HISTORY (4) times in the history, and a candidate, once   *)
(* derived, never has more than 4 copies in the history it was counted in: *)
(* the count cannot pass from below 4 to above 4 without the equality test *)
(* seeing 4.                                                               *)
(***************************************************************************)
C21_NeverMoreThanFourCopies ==
    /\ \A i \in 1..Len(iteration_history) :
          Copies(iteration_history, iteration_history[i]) <= 4
    /\ loop_count >= 1 => Copies(iteration_history, current_gen) <= 4

\* the period-4 run at the cap: the full history holds four copies of its
\* oldest generation, and no candidate ever had four when it was counted
C21_Witness ==
    /\ grid = PeriodFourGrid
    /\ pc = "returned"
    /\ loop_count = LargeIterations
    /\ Len(iteration_history) = ITERATION_HISTORY_SIZE
    /\ Copies(iteration_history, iteration_history[1]) = MAX_COPIES_IN_HISTORY
    /\ ~repeated_pattern_halted_the_game

====
